---- MODULE Spec2Model ----
(***************************************************************************)
(* A model of the savannah e-commerce ETL scripts:                         *)
(*   scripts/extract/api-data-extraction.py   (paginated fetch, upload)    *)
(*   scripts/transform/json-tocsv-conversion.py (flattening, audit, CSV)   *)
(*   scripts/load/*-bq-loader.py              (clean and load)             *)
(*   scripts/savannah-dag.py                  (the DAG run)                *)
(* Every component has its own specification; the variables of the other   *)
(* components stay at their initial value in it.                           *)
(***************************************************************************)
EXTENDS Integers, Sequences, FiniteSets, TLC

VARIABLES
    \* ---- flatten_json on one record (json-tocsv-conversion.py:60-159)
    flat_pc,          \* "call" | "returned" | "raised"
    flat_type,        \* the data_type argument
    nested_json,      \* the argument: the envelope {"data": ...}
    flat_rows,        \* the list of rows returned
    \* ---- fetch_paginated_data (api-data-extraction.py:20-51)
    fetch_pc,         \* "request": at the top of the while loop | "done": returned
    limit,            \* the limit argument (page size)
    skip,
    all_items,
    total_fetched,
    server_total,     \* the number of items the server holds
    requests,         \* history: the skip of every request issued, in order
    pages,            \* history: the item list of every page received, in order
    well_formed,      \* history: every response so far was the server's true page
    failed,           \* history: a request raised requests.RequestException
    \* ---- convert_json_to_csv (json-tocsv-conversion.py:161-210)
    conv_pc,          \* "loop" | "audit" | "write" | "done" | "raised"
    conv_error,       \* the exception that left the run, or "none"
    data_type,
    raw_lines,        \* what read_from_gcs returned
    line_no,          \* the line the for loop handles next
    flattened_data,
    df,               \* the DataFrame after add_audit_columns
    cleanse_csv,      \* the destination blob: <<>> or <<the table written>>
    \* ---- add_audit_columns called run after run (json-tocsv-conversion.py:31-58)
    audit_type,       \* the data_type of the runs
    audit_calls,      \* the number of runs so far
    audit_result,     \* what the last run gave: [raised, df]
    sgk_seen,         \* history: every (natural key, surrogate key) of a row
    \* ---- main of the three loaders (product-, cart-, user-bq-loader.py)
    loader,           \* "products" | "carts" | "users": which script runs
    load_pc,          \* "start" | "cleaned" | "done" | "raised" (main re-raised)
    load_error,       \* what raised: "none" | "read" | "KeyError" | "load"
    cleanse_input,    \* the CSV at --input_file: [columns, rows]
    cleaned,          \* the DataFrame the clean step returned
    bq_table,         \* the rows of the destination table
    table_before,     \* history: bq_table when the current run began
    load_calls,       \* history: load_to_bigquery calls of the current run
    load_runs,        \* history: the number of runs of the loader so far
    last_success,     \* history: [n, csv]: the number of runs that loaded, and
                      \* the CSV of the latest of them
    \* ---- main of api-data-extraction.py after the fetch (lines 53-84)
    save_pc,          \* "pending": save_to_gcs not called yet | "returned" | "raised"
                      \* | "exit": the script is over
    save_result,      \* what save_to_gcs returned: "none" | "True" | "False"
    raw_blob,         \* the lines of the blob raw/<name>.json
    blob_before,      \* history: raw_blob when the script began
    exit_status,      \* the exit status of the script, -1 while it runs
    \* ---- one run of ecommerce_dag (savannah-dag.py)
    task_state,       \* task id -> "none" | "running" | "up_for_retry" | "success"
                      \*            | "failed" | "upstream_failed" | "skipped"
    try_number,       \* task id -> the attempt that is running or waits for its
                      \*            retry; 0 when the task is not started or is over
    store,            \* blob or table name -> its contents
    ran,              \* history: the tasks that started an attempt
    reads,            \* history: <<task, name>> for every object a task read
    writes            \* history: <<task, name>> for every object a task wrote

flatVars == <<flat_pc, flat_type, nested_json, flat_rows>>

fetchVars == <<fetch_pc, limit, skip, all_items, total_fetched, server_total,
               requests, pages, well_formed, failed>>

convVars == <<conv_pc, conv_error, data_type, raw_lines, line_no, flattened_data,
              df, cleanse_csv>>

auditVars == <<audit_type, audit_calls, audit_result, sgk_seen>>

loadVars == <<loader, load_pc, load_error, cleanse_input, cleaned, bq_table,
              table_before, load_calls, load_runs, last_success>>

saveVars == <<save_pc, save_result, raw_blob, blob_before, exit_status>>

dagVars == <<task_state, try_number, store, ran, reads, writes>>

vars == <<flatVars, fetchVars, convVars, auditVars, loadVars, saveVars, dagVars>>

\* what the actions of one component leave alone
notFlat == <<fetchVars, convVars, auditVars, loadVars, saveVars, dagVars>>
notFetch == <<flatVars, convVars, auditVars, loadVars, saveVars, dagVars>>
notConv == <<flatVars, fetchVars, auditVars, loadVars, saveVars, dagVars>>
notAudit == <<flatVars, fetchVars, convVars, loadVars, saveVars, dagVars>>
notLoad == <<flatVars, fetchVars, convVars, auditVars, saveVars, dagVars>>
notDag == <<flatVars, fetchVars, convVars, auditVars, loadVars, saveVars>>
notSave == <<flatVars, fetchVars, convVars, auditVars, loadVars, dagVars>>

(***************************************************************************)
(* Bounds of the model.                                                    *)
(***************************************************************************)
MaxFields == 2        \* fields of a generated user/product data object
MaxItems == 2         \* line items of a generated cart
MaxTotal == 4         \* items a server holds, and the largest total it reports
MaxLimit == 2         \* the largest page size tried
MaxLines == 3         \* lines of a raw blob
MaxRows == 2          \* rows of a table handed to add_audit_columns
MaxCalls == 2         \* runs of add_audit_columns in a row
MaxCsvRows == 2    \* rows of a cleansed CSV
MaxRuns == 3       \* runs of a loader, one after the other

(***************************************************************************)
(* JSON values as Python sees them after json.loads: None, bool, int,      *)
(* float, str, dict (insertion ordered: a sequence of key/value pairs with *)
(* distinct keys) and list.  A float is held in hundredths.                *)
(***************************************************************************)
JNull == [kind |-> "null", val |-> 0]
JBool(b) == [kind |-> "bool", val |-> b]
JInt(n) == [kind |-> "int", val |-> n]
JFloat(h) == [kind |-> "float", val |-> h]
JStr(s) == [kind |-> "str", val |-> s]
JObj(pairs) == [kind |-> "obj", val |-> pairs]
JList(elems) == [kind |-> "list", val |-> elems]
KV(key, value) == [k |-> key, v |-> value]

\* A value a CSV cell can hold as such: string, number, boolean or null.
IsScalar(v) == v.kind \in {"null", "bool", "int", "float", "str"}

\* isinstance(v, (str, int, float, bool)): None is none of these.
IsStrIntFloatBool(v) == v.kind \in {"str", "int", "float", "bool"}

Keys(obj) == {obj.val[i].k : i \in 1..Len(obj.val)}

\* dict.get(key, default)
GetOr(obj, key, default) ==
    IF key \in Keys(obj)
    THEN (CHOOSE p \in {obj.val[i] : i \in 1..Len(obj.val)} : p.k = key).v
    ELSE default

\* dict.get(key): None when the key is absent
Get(obj, key) == GetOr(obj, key, JNull)

\* A row (a Python dict used as a CSV record): column name -> value.
EmptyRow == [c \in {} |-> JNull]

\* row[key] = value
Put(row, key, value) ==
    [c \in DOMAIN row \cup {key} |-> IF c = key THEN value ELSE row[c]]

\* row.update(other)
Update(row, other) ==
    [c \in DOMAIN row \cup DOMAIN other |-> IF c \in DOMAIN other THEN other[c] ELSE row[c]]

(***************************************************************************)
(* Results of a call that may raise.                                       *)
(***************************************************************************)
Raised == [raised |-> TRUE, rows |-> <<>>]
Returned(rows) == [raised |-> FALSE, rows |-> rows]

(***************************************************************************)
(* flatten_cart_json                                                       *)
(***************************************************************************)
CartLevelColumns ==
    {"cart_id", "user_id", "total_cart_value", "discounted_total_cart_value",
     "total_products", "total_quantity"}

ItemLevelColumns ==
    {"product_id", "product_title", "product_price", "product_quantity",
     "product_total", "product_discount_percentage", "product_discounted_total",
     "product_thumbnail"}

\* cart_info = {...}
cart_info(cart_data) ==
    [c \in CartLevelColumns |->
        CASE c = "cart_id" -> Get(cart_data, "id")
          [] c = "user_id" -> Get(cart_data, "userId")
          [] c = "total_cart_value" -> Get(cart_data, "total")
          [] c = "discounted_total_cart_value" -> Get(cart_data, "discountedTotal")
          [] c = "total_products" -> Get(cart_data, "totalProducts")
          [] c = "total_quantity" -> Get(cart_data, "totalQuantity")]

\* the dict handed to row.update for one product
item_info(product) ==
    [c \in ItemLevelColumns |->
        CASE c = "product_id" -> Get(product, "id")
          [] c = "product_title" -> Get(product, "title")
          [] c = "product_price" -> Get(product, "price")
          [] c = "product_quantity" -> Get(product, "quantity")
          [] c = "product_total" -> Get(product, "total")
          [] c = "product_discount_percentage" -> Get(product, "discountPercentage")
          [] c = "product_discounted_total" -> Get(product, "discountedTotal")
          [] c = "product_thumbnail" -> Get(product, "thumbnail")]

\* row = cart_info.copy(); row.update({...})
expanded_row(info, product) == Update(info, item_info(product))

\* What `for product in products` iterates over; a value that is not iterable
\* raises TypeError.  A str yields its characters and a dict its keys, which
\* are strings: only their emptiness matters here, so one stand-in element
\* marks "some strings".
IsIterable(products) == products.kind \in {"list", "str", "obj"}
IterElems(products) ==
    CASE products.kind = "list" -> products.val
      [] products.kind = "str" -> IF products.val = "" THEN <<>> ELSE <<JStr("c")>>
      [] products.kind = "obj" -> [i \in 1..Len(products.val) |-> JStr(products.val[i].k)]

\* Mutant: `row = cart_info` without .copy(), so every appended row is the one
\* dict that the last product updated.
flatten_cart_json_aliased(json) ==
    LET cart_data == GetOr(json, "data", JObj(<<>>))
    IN  IF cart_data.kind # "obj" THEN Raised
        ELSE LET products == GetOr(cart_data, "products", JList(<<>>))
             IN  IF ~IsIterable(products) THEN Raised
                 ELSE LET elems == IterElems(products)
                      IN  IF \E i \in 1..Len(elems) : elems[i].kind # "obj"
                          THEN Raised
                          ELSE Returned([i \in 1..Len(elems) |->
                                            expanded_row(cart_info(cart_data), elems[Len(elems)])])

flatten_cart_json(json) ==
    LET cart_data == GetOr(json, "data", JObj(<<>>))
    IN  IF cart_data.kind # "obj" THEN Raised
        ELSE LET products == GetOr(cart_data, "products", JList(<<>>))
             IN  IF ~IsIterable(products) THEN Raised
                 ELSE LET elems == IterElems(products)
                      IN  IF \E i \in 1..Len(elems) : elems[i].kind # "obj"
                          THEN Raised     \* product.get on a non-dict
                          ELSE Returned([i \in 1..Len(elems) |->
                                            expanded_row(cart_info(cart_data), elems[i])])

(***************************************************************************)
(* flatten_user_json and flatten_product_json: the same code but for the   *)
(* prefix.                                                                 *)
(***************************************************************************)
\* {f'user_{k}': v for k, v in data.items() if isinstance(v, (str, int, float, bool))}
RECURSIVE ScalarColumns(_, _, _)
ScalarColumns(pairs, prefix, n) ==
    IF n = 0 THEN EmptyRow
    ELSE LET row == ScalarColumns(pairs, prefix, n - 1)
             p == pairs[n]
         IN  IF IsStrIntFloatBool(p.v) THEN Put(row, prefix \o p.k, p.v) ELSE row

\* for sub_k, sub_v in v.items(): flattened[f'user_{k}_{sub_k}'] = sub_v
RECURSIVE SubColumns(_, _, _, _)
SubColumns(row, name, subpairs, n) ==
    IF n = 0 THEN row
    ELSE Put(SubColumns(row, name, subpairs, n - 1),
             name \o "_" \o subpairs[n].k, subpairs[n].v)

\* for k, v in data.items(): if isinstance(v, dict) ... elif isinstance(v, list) ...
RECURSIVE NestedColumns(_, _, _, _)
NestedColumns(row, pairs, prefix, n) ==
    IF n = 0 THEN row
    ELSE LET before == NestedColumns(row, pairs, prefix, n - 1)
             p == pairs[n]
         IN  CASE p.v.kind = "obj" ->
                    SubColumns(before, prefix \o p.k, p.v.val, Len(p.v.val))
               [] p.v.kind = "list" ->
                    Put(before, prefix \o p.k \o "_count", JInt(Len(p.v.val)))
               [] OTHER -> before

FlattenEntity(json, prefix) ==
    LET data == GetOr(json, "data", JObj(<<>>))
    IN  IF data.kind # "obj" THEN Raised      \* .items() on a non-dict
        ELSE Returned(<<NestedColumns(ScalarColumns(data.val, prefix, Len(data.val)),
                                      data.val, prefix, Len(data.val))>>)

flatten_user_json(json) == FlattenEntity(json, "user_")

flatten_product_json(json) == FlattenEntity(json, "product_")

\* argparse admits only these three values of --data_type
DataTypes == {"carts", "users", "products"}

flatten_json(json, type) ==
    CASE type = "carts" -> flatten_cart_json(json)
      [] type = "users" -> flatten_user_json(json)
      [] type = "products" -> flatten_product_json(json)

(***************************************************************************)
(* The records the flatteners are applied to.                              *)
(***************************************************************************)
FieldNames == {"id", "address", "address_city"}

FieldValues ==
    {JNull, JBool(TRUE), JInt(7), JFloat(4999), JStr("Widget"),
     JObj(<<KV("city", JStr("Nairobi"))>>),
     JObj(<<KV("city", JStr("Nairobi")),
            KV("coordinates", JObj(<<KV("lat", JFloat(125))>>))>>),
     JList(<<>>), JList(<<JStr("a"), JStr("b")>>)}

FieldPairs == {KV(k, v) : k \in FieldNames, v \in FieldValues}

DistinctKeys(pairs) == \A i, j \in 1..Len(pairs) : pairs[i].k = pairs[j].k => i = j

\* user and product `data` objects with at most MaxFields fields
EntityData ==
    {JObj(ps) : ps \in UNION {{s \in [1..m -> FieldPairs] : DistinctKeys(s)} : m \in 0..MaxFields}}

LineItems ==
    {JObj(<<KV("id", JInt(1)), KV("title", JStr("Pen")), KV("price", JFloat(4999)),
            KV("quantity", JInt(2))>>),
     JObj(<<KV("id", JInt(2)), KV("title", JStr("Desk")), KV("price", JInt(60)),
            KV("quantity", JInt(1)), KV("total", JInt(60)),
            KV("discountPercentage", JFloat(550)), KV("discountedTotal", JFloat(5670)),
            KV("thumbnail", JStr("desk.png"))>>),
     JObj(<<KV("id", JInt(2)), KV("title", JObj(<<KV("en", JStr("Desk"))>>))>>)}

\* values of the cart's `products` field: lists of line items and of other
\* things, and values that are no list
ProductsValues ==
    {JList(s) : s \in UNION {[1..m -> LineItems \cup {JInt(3)}] : m \in 0..MaxItems}}
        \cup {JNull, JStr("")}

Optional(key, values) == {<<>>} \cup {<<KV(key, v)>> : v \in values}

CartData ==
    {JObj(i \o u \o t \o q \o p) :
        i \in Optional("id", {JInt(1), JInt(12)}),
        u \in Optional("userId", {JInt(5)}),
        t \in Optional("total", {JFloat(10050)}),
        q \in Optional("totalQuantity", {JInt(3)}),
        p \in Optional("products", ProductsValues)}

Envelope(data) ==
    JObj(<<KV("metadata", JObj(<<KV("extraction_timestamp", JStr("T1"))>>)),
           KV("data", data)>>)

DataOf(json) == GetOr(json, "data", JObj(<<>>))

(***************************************************************************)
(* Specification of one flatten_json call.                                 *)
(***************************************************************************)
FlatInit ==
    /\ flat_pc = "call"
    /\ flat_type \in DataTypes
    /\ nested_json \in {Envelope(d) : d \in IF flat_type = "carts" THEN CartData ELSE EntityData}
    /\ flat_rows = <<>>

FlattenReturns ==
    /\ flat_pc = "call"
    /\ ~flatten_json(nested_json, flat_type).raised
    /\ flat_rows' = flatten_json(nested_json, flat_type).rows
    /\ flat_pc' = "returned"
    /\ UNCHANGED <<flat_type, nested_json, notFlat>>

FlattenRaises ==
    /\ flat_pc = "call"
    /\ flatten_json(nested_json, flat_type).raised
    /\ flat_pc' = "raised"
    /\ UNCHANGED <<flat_type, nested_json, flat_rows, notFlat>>

FlatNext == FlattenReturns \/ FlattenRaises

(***************************************************************************)
(* Claims about the flatteners.                                            *)
(***************************************************************************)
\* the source field of every cart-level and item-level column
CartSource ==
    [cart_id |-> "id", user_id |-> "userId", total_cart_value |-> "total",
     discounted_total_cart_value |-> "discountedTotal",
     total_products |-> "totalProducts", total_quantity |-> "totalQuantity"]

ItemSource ==
    [product_id |-> "id", product_title |-> "title", product_price |-> "price",
     product_quantity |-> "quantity", product_total |-> "total",
     product_discount_percentage |-> "discountPercentage",
     product_discounted_total |-> "discountedTotal", product_thumbnail |-> "thumbnail"]

\* the cart's list of line items: the `products` list (none when the key is
\* absent), provided every element is an object
HasLineItems(cart) ==
    LET products == GetOr(cart, "products", JList(<<>>))
    IN  /\ products.kind = "list"
        /\ \A i \in 1..Len(products.val) : products.val[i].kind = "obj"

LineItemsOf(cart) == GetOr(cart, "products", JList(<<>>)).val

\* C3: a cart with N line items flattens to exactly N rows, in item order,
\* all carrying the cart's six cart-level values and each carrying the
\* per-item values of its own line item; 0 items give 0 rows.
C3_CartExpansion ==
    (flat_pc # "call" /\ flat_type = "carts" /\ HasLineItems(DataOf(nested_json))) =>
        LET cart == DataOf(nested_json)
            items == LineItemsOf(cart)
        IN  /\ flat_pc = "returned"
            /\ Len(flat_rows) = Len(items)
            /\ \A i \in 1..Len(flat_rows) :
                /\ DOMAIN flat_rows[i] = DOMAIN CartSource \cup DOMAIN ItemSource
                /\ \A c \in DOMAIN CartSource :
                    /\ flat_rows[i][c] = Get(cart, CartSource[c])
                    /\ \A j \in 1..Len(flat_rows) : flat_rows[j][c] = flat_rows[i][c]
                /\ \A c \in DOMAIN ItemSource :
                    flat_rows[i][c] = Get(items[i], ItemSource[c])

\* a cart with two different line items has been flattened
C3_Witness ==
    /\ flat_pc = "returned" /\ flat_type = "carts"
    /\ HasLineItems(DataOf(nested_json))
    /\ Len(flat_rows) = 2
    /\ flat_rows[1]["product_id"] # flat_rows[2]["product_id"]
    /\ flat_rows[1]["cart_id"] = JInt(12)

\* a cart without items has been flattened
C3_WitnessEmpty ==
    /\ flat_pc = "returned" /\ flat_type = "carts"
    /\ "products" \in Keys(DataOf(nested_json))
    /\ LineItemsOf(DataOf(nested_json)) = <<>>
    /\ flat_rows = <<>>

\* C7: every value of every row the three flatteners emit is a scalar
\* (string, number, boolean or null), never an object or a list.
C7_RowsAreFlat ==
    flat_pc = "returned" =>
        \A i \in 1..Len(flat_rows) :
            \A c \in DOMAIN flat_rows[i] : IsScalar(flat_rows[i][c])

\* C8: user (product) flattening emits one row holding user_k for every
\* top-level scalar field k (null included), user_f_s for every subfield s of
\* an object field f, user_f_count for every list field f, and nothing else.
C8_EntityColumns ==
    (flat_pc = "returned" /\ flat_type \in {"users", "products"}) =>
        LET prefix == IF flat_type = "users" THEN "user_" ELSE "product_"
            pairs == DataOf(nested_json).val
            fields == {pairs[i] : i \in 1..Len(pairs)}
            row == flat_rows[1]
            expected ==
                {prefix \o p.k : p \in {q \in fields : IsScalar(q.v)}}
                \cup {prefix \o p.k \o "_count" : p \in {q \in fields : q.v.kind = "list"}}
                \cup UNION {{prefix \o p.k \o "_" \o p.v.val[i].k : i \in 1..Len(p.v.val)} :
                                p \in {q \in fields : q.v.kind = "obj"}}
        IN  /\ Len(flat_rows) = 1
            /\ DOMAIN row = expected
            /\ \A p \in fields :
                /\ IsScalar(p.v) => row[prefix \o p.k] = p.v
                /\ p.v.kind = "list" => row[prefix \o p.k \o "_count"] = JInt(Len(p.v.val))
                /\ p.v.kind = "obj" =>
                    \A i \in 1..Len(p.v.val) :
                        row[prefix \o p.k \o "_" \o p.v.val[i].k] = p.v.val[i].v

(***************************************************************************)
(* fetch_paginated_data.  The server's items are numbered by position, so  *)
(* the item at offset i (from 0) is i + 1.  A response (after              *)
(* raise_for_status and response.json()) is the collection key it uses,    *)
(* the items under that key and the reported total.                        *)
(***************************************************************************)
Min(a, b) == IF a < b THEN a ELSE b

Range(from, n) == [i \in 1..n |-> from + i]

\* the page a server holding `total` items answers to ?limit=lim&skip=skp
TruePage(total, skp, lim) ==
    [key |-> "products",
     items |-> IF skp < total THEN Range(skp, Min(lim, total - skp)) ELSE <<>>,
     total |-> total]

\* every response body tried: some collection key, up to `lim` items from the
\* offset, any total
Responses(skp, lim) ==
    [key : {"products", "users", "carts", "message"},
     items : {Range(skp, n) : n \in 0..lim},
     total : 0..MaxTotal]

\* data.get('products') or data.get('users') or data.get('carts') or []
ItemsOf(data) ==
    IF data.key \in {"products", "users", "carts"} THEN data.items ELSE <<>>

\* Mutant: the loop goes on until more than the total has been fetched.
ReachedTotal_strict(fetched, total) == fetched > total

\* total_fetched >= data.get('total', 0)
ReachedTotal(fetched, total) == fetched >= total

\* Mutant: the handler logs and goes round the loop again (no break).
OnRequestException_retry == "request"

\* except requests.RequestException: ...; break
OnRequestException == "done"

\* Mutant: the offset is not advanced.
NextSkip_same(skp, lim) == skp

\* skip += limit
NextSkip(skp, lim) == skp + lim

FetchInit ==
    /\ fetch_pc = "request"
    /\ limit \in 1..MaxLimit
    /\ server_total \in 0..MaxTotal
    /\ skip = 0
    /\ all_items = <<>>
    /\ total_fetched = 0
    /\ requests = <<>>
    /\ pages = <<>>
    /\ well_formed = TRUE
    /\ failed = FALSE

FetchIdle ==
    /\ fetch_pc = "idle"
    /\ limit = 0
    /\ server_total = 0
    /\ skip = 0
    /\ all_items = <<>>
    /\ total_fetched = 0
    /\ requests = <<>>
    /\ pages = <<>>
    /\ well_formed = TRUE
    /\ failed = FALSE

\* one pass of the while loop whose request succeeds
FetchPage(data) ==
    /\ fetch_pc = "request"
    /\ requests' = Append(requests, skip)
    /\ pages' = Append(pages, ItemsOf(data))
    /\ well_formed' = (well_formed /\ data = TruePage(server_total, skip, limit))
    /\ IF ItemsOf(data) = <<>>
       THEN \* if not items: break
            /\ fetch_pc' = "done"
            /\ UNCHANGED <<all_items, total_fetched, skip>>
       ELSE /\ all_items' = all_items \o ItemsOf(data)
            /\ total_fetched' = total_fetched + Len(ItemsOf(data))
            /\ IF ReachedTotal(total_fetched', data.total)
               THEN /\ fetch_pc' = "done"
                    /\ UNCHANGED skip
               ELSE /\ skip' = NextSkip(skip, limit)
                    /\ fetch_pc' = "request"
    /\ UNCHANGED <<limit, server_total, failed, notFetch>>

\* one pass of the while loop whose request raises requests.RequestException
FetchRequestFails ==
    /\ fetch_pc = "request"
    /\ requests' = Append(requests, skip)
    /\ failed' = TRUE
    /\ well_formed' = FALSE
    /\ fetch_pc' = OnRequestException
    /\ UNCHANGED <<limit, server_total, skip, all_items, total_fetched, pages, notFetch>>

FetchNext ==
    \/ \E data \in Responses(skip, limit) : FetchPage(data)
    \/ FetchRequestFails

(***************************************************************************)
(* Claims about the fetch.                                                 *)
(***************************************************************************)
RECURSIVE Concat(_)
Concat(ss) == IF ss = <<>> THEN <<>> ELSE Head(ss) \o Concat(Tail(ss))

\* C1: against a server that holds T items and answers every request with its
\* true page, the fetch returns exactly the T items in server order; its
\* requests are skip 0, L, 2L, ... and the last one is the first whose page is
\* empty or reaches the total.
C1_FetchReturnsTotal ==
    (fetch_pc = "done" /\ well_formed) =>
        /\ all_items = Range(0, server_total)
        /\ Len(all_items) = server_total
        /\ requests # <<>>
        /\ \A i \in 1..Len(requests) :
            /\ requests[i] = (i - 1) * limit
            /\ i < Len(requests) => requests[i] + limit < server_total
            /\ i = Len(requests) => requests[i] + limit >= server_total

\* a fetch of several full pages whose last page reaches the total exactly
C1_Witness ==
    /\ fetch_pc = "done" /\ well_formed
    /\ Len(requests) = 2
    /\ server_total = 2 * limit
    /\ Len(all_items) = server_total

\* C18: whatever the server answers, with totals up to MaxTotal, the fetch
\* ends; every pass of the loop ends it or adds to the fetched count; each
\* request asks for the offset of the one before plus the page size, so no
\* offset is asked for twice.
C18_FetchTerminates ==
    /\ <>(fetch_pc = "done")
    /\ [][fetch_pc' = "done" \/ total_fetched' > total_fetched]_fetchVars
    /\ [](\A i \in 1..Len(requests) :
            /\ i > 1 => requests[i] = requests[i - 1] + limit
            /\ \A j \in 1..Len(requests) : requests[i] = requests[j] => i = j)

\* a fetch of three requests that ended although the server never told the
\* truth and no request failed
C18_Witness ==
    /\ fetch_pc = "done"
    /\ Len(requests) >= 3
    /\ ~failed
    /\ \A i \in 1..Len(pages) : pages[i] # TruePage(server_total, requests[i], limit).items

\* C2: when a page request fails, that request is the last one, and the fetch
\* returns the concatenation of the pages received before it.
C2_FailureEndsFetch ==
    failed =>
        /\ fetch_pc = "done"
        /\ all_items = Concat(pages)
        /\ Len(requests) = Len(pages) + 1
        /\ \A i \in 1..Len(requests) : requests[i] = (i - 1) * limit

\* the third request failed after two pages had been received
C2_Witness ==
    /\ failed /\ fetch_pc = "done"
    /\ Len(pages) = 2
    /\ Len(all_items) >= 2

\* the first request failed
C2_WitnessFirst == failed /\ fetch_pc = "done" /\ pages = <<>> /\ all_items = <<>>


(***************************************************************************)
(* What pandas and Python do to the rows: pd.DataFrame(list_of_dicts),     *)
(* str() and hashlib.md5(...).hexdigest().                                 *)
(***************************************************************************)
\* float('nan'): the cell of a row that lacks the column
NaN == [kind |-> "nan", val |-> 0]

Digits == <<"0", "1", "2", "3", "4", "5", "6", "7", "8", "9">>

\* str(n) of an int n >= 0
RECURSIVE IntStr(_)
IntStr(n) == IF n < 10 THEN Digits[n + 1] ELSE IntStr(n \div 10) \o Digits[(n % 10) + 1]

\* str(x) of a float x >= 0 held in hundredths: 7.0, 7.5, 49.99
FloatStr(h) ==
    IntStr(h \div 100) \o "." \o
        (IF h % 10 = 0 THEN Digits[((h % 100) \div 10) + 1]
         ELSE Digits[((h % 100) \div 10) + 1] \o Digits[(h % 10) + 1])

RECURSIVE PyRepr(_)
RECURSIVE ReprItems(_, _)
RECURSIVE ReprElems(_, _)
\* repr(v): what str() shows of the elements of a dict or list
PyRepr(v) ==
    CASE v.kind = "int" -> IntStr(v.val)
      [] v.kind = "float" -> FloatStr(v.val)
      [] v.kind = "nan" -> "nan"
      [] v.kind = "null" -> "None"
      [] v.kind = "bool" -> IF v.val THEN "True" ELSE "False"
      [] v.kind = "str" -> "'" \o v.val \o "'"
      [] v.kind = "obj" -> "{" \o ReprItems(v.val, Len(v.val)) \o "}"
      [] v.kind = "list" -> "[" \o ReprElems(v.val, Len(v.val)) \o "]"
ReprItems(pairs, n) ==
    IF n = 0 THEN ""
    ELSE (IF n = 1 THEN "" ELSE ReprItems(pairs, n - 1) \o ", ")
            \o "'" \o pairs[n].k \o "': " \o PyRepr(pairs[n].v)
ReprElems(elems, n) ==
    IF n = 0 THEN ""
    ELSE (IF n = 1 THEN "" ELSE ReprElems(elems, n - 1) \o ", ") \o PyRepr(elems[n])

\* str(v)
PyStr(v) == IF v.kind = "str" THEN v.val ELSE PyRepr(v)

\* hashlib.md5(s.encode()).hexdigest(): a string that is a function of s, and
\* taken to differ for different s
md5_hexdigest(s) == JStr("md5:" \o s)

\* the cells of column c, one per dict of the list; NaN where the dict lacks c
ColumnCells(dicts, c) ==
    [i \in 1..Len(dicts) |-> IF c \in DOMAIN dicts[i] THEN dicts[i][c] ELSE NaN]

\* the dtype pandas infers for a column built from Python objects
InferDtype(cells) ==
    LET kinds == {cells[i].kind : i \in 1..Len(cells)}
    IN  CASE kinds \cap {"str", "obj", "list"} # {} -> "object"
          [] kinds \cap {"str", "obj", "list"} = {} /\ "bool" \in kinds ->
                IF kinds = {"bool"} THEN "bool" ELSE "object"
          [] kinds = {"int"} -> "int64"
          [] kinds = {"null"} -> "object"
          [] OTHER -> "float64"

\* a cell as held in a column of that dtype: in a float64 column an int is the
\* float of the same value and None is NaN
AsDtype(cell, dtype) ==
    IF dtype = "float64"
    THEN CASE cell.kind = "int" -> JFloat(cell.val * 100)
           [] cell.kind = "null" -> NaN
           [] OTHER -> cell
    ELSE cell

\* pd.DataFrame(flattened_data)
DataFrame(dicts) ==
    LET columns == UNION {DOMAIN dicts[i] : i \in 1..Len(dicts)}
    IN  [columns |-> columns,
         rows |-> [i \in 1..Len(dicts) |->
                      [c \in columns |->
                          AsDtype(ColumnCells(dicts, c)[i], InferDtype(ColumnCells(dicts, c)))]]]

\* frame[name] = value, a scalar or one value per row
SetColumn(frame, name, values) ==
    [columns |-> frame.columns \cup {name},
     rows |-> [i \in 1..Len(frame.rows) |-> Put(frame.rows[i], name, values[i])]]

(***************************************************************************)
(* add_audit_columns                                                       *)
(***************************************************************************)
AuditColumns ==
    {"record_create_name", "record_create_datetime", "record_update_name",
     "record_update_datetime", "source_system_code"}

\* lines 39-47: the five audit columns, the same for every row
WithAuditColumns(frame, current_time) ==
    [columns |-> frame.columns \cup AuditColumns,
     rows |-> [i \in 1..Len(frame.rows) |->
                  Update(frame.rows[i],
                         [c \in AuditColumns |->
                             CASE c = "record_create_name" -> JStr("Daniel Oselu")
                               [] c = "record_create_datetime" -> JStr(current_time)
                               [] c = "record_update_name" -> JStr("Daniel Oselu")
                               [] c = "record_update_datetime" -> JStr(current_time)
                               [] c = "source_system_code" -> JStr("PUBLIC_DUMMYJSON_API")])]]

\* row.get(name, '')
RowGetOrEmpty(row, name) == IF name \in DOMAIN row THEN row[name] ELSE JStr("")

\* f"{row['user_id']}{row.get('product_id', '')}{row.get('cart_id', '')}"
cart_key_string(row) ==
    PyStr(row["user_id"]) \o PyStr(RowGetOrEmpty(row, "product_id"))
        \o PyStr(RowGetOrEmpty(row, "cart_id"))

\* the column whose absence makes the surrogate-key step raise KeyError
KeyColumn(type) ==
    CASE type = "products" -> "product_id"
      [] type = "users" -> "user_id"
      [] type = "carts" -> "user_id"

SgkColumn(type) ==
    CASE type = "products" -> "sgk_product_id"
      [] type = "users" -> "sgk_user_id"
      [] type = "carts" -> "sgk_cart_id"

\* The results add_audit_columns can have: [raised, frame].  A carts table
\* without rows makes frame.apply(..., axis=1) return an empty frame, not a
\* column; what assigning it to frame['sgk_cart_id'] does depends on the pandas
\* version, so both outcomes are kept.
add_audit_columns(frame, type, current_time) ==
    LET audited == WithAuditColumns(frame, current_time)
        keyed(f(_)) ==
            SetColumn(audited, SgkColumn(type),
                      [i \in 1..Len(audited.rows) |-> md5_hexdigest(f(audited.rows[i]))])
        of_product(row) == PyStr(row["product_id"])
        of_user(row) == PyStr(row["user_id"])
    IN  CASE type = "carts" /\ audited.rows = <<>> ->
                {[raised |-> TRUE, df |-> audited],
                 [raised |-> FALSE, df |-> keyed(cart_key_string)]}
          [] type = "carts" /\ audited.rows # <<>> ->
                IF "user_id" \in audited.columns
                THEN {[raised |-> FALSE, df |-> keyed(cart_key_string)]}
                ELSE {[raised |-> TRUE, df |-> audited]}
          [] type = "products" ->
                IF "product_id" \in audited.columns
                THEN {[raised |-> FALSE, df |-> keyed(of_product)]}
                ELSE {[raised |-> TRUE, df |-> audited]}
          [] type = "users" ->
                IF "user_id" \in audited.columns
                THEN {[raised |-> FALSE, df |-> keyed(of_user)]}
                ELSE {[raised |-> TRUE, df |-> audited]}

(***************************************************************************)
(* convert_json_to_csv.  A line of the raw blob is either text that        *)
(* json.loads rejects or the serialisation of a JSON value.                *)
(***************************************************************************)
Malformed == [json |-> FALSE, value |-> JNull]
LineOf(value) == [json |-> TRUE, value |-> value]

\* json.loads(line.strip()): the value, or JSONDecodeError
json_loads(line) ==
    IF line.json THEN [raised |-> FALSE, value |-> line.value]
    ELSE [raised |-> TRUE, value |-> JNull]

\* for meta_key, meta_value in metadata.items(): entry[f'metadata_{meta_key}'] = meta_value
RECURSIVE MetadataColumns(_, _, _)
MetadataColumns(entry, metapairs, n) ==
    IF n = 0 THEN entry
    ELSE Put(MetadataColumns(entry, metapairs, n - 1),
             "metadata_" \o metapairs[n].k, metapairs[n].v)

\* lines 186-192: the entries of one line whose `data` is an object; .items()
\* of a metadata that is no dict raises once there is an entry to add it to
flattened_entries(json_data, type) ==
    LET flat == flatten_json(json_data, type)
        metadata == GetOr(json_data, "metadata", JObj(<<>>))
    IN  IF flat.raised THEN Raised
        ELSE IF flat.rows = <<>> THEN Returned(<<>>)
        ELSE IF metadata.kind # "obj" THEN Raised
        ELSE Returned([i \in 1..Len(flat.rows) |->
                          MetadataColumns(flat.rows[i], metadata.val, Len(metadata.val))])

\* Mutant: a line that does not decode ends the loop (break for continue).
AfterDecodeError_break(n) == Len(raw_lines) + 1

\* except json.JSONDecodeError: ...; continue
AfterDecodeError(n) == n + 1

\* the `data` objects of the lines tried
ConvData(type) ==
    CASE type = "products" ->
            {JObj(<<KV("id", JInt(7)), KV("title", JStr("Widget")), KV("price", JInt(60))>>),
             JObj(<<KV("id", JInt(12)), KV("title", JStr("Pen")), KV("price", JFloat(4999))>>),
             JObj(<<KV("title", JStr("Ghost"))>>)}
      [] type = "users" ->
            {JObj(<<KV("id", JInt(7)), KV("firstName", JStr("Ann")),
                    KV("address", JObj(<<KV("city", JStr("Nairobi"))>>))>>),
             JObj(<<KV("id", JInt(12)), KV("firstName", JStr("Bo")), KV("age", JNull)>>),
             JObj(<<KV("firstName", JStr("Ghost"))>>)}
      [] type = "carts" ->
            {JObj(<<KV("id", JInt(1)), KV("userId", JInt(5)), KV("products", JList(<<>>))>>),
             JObj(<<KV("id", JInt(12)), KV("userId", JInt(5)),
                    KV("products", JList(<<
                        JObj(<<KV("id", JInt(1)), KV("price", JFloat(4999))>>),
                        JObj(<<KV("id", JInt(2)), KV("price", JInt(60))>>)>>))>>),
             JObj(<<KV("userId", JInt(5)),
                    KV("products", JList(<<JObj(<<KV("id", JInt(1))>>)>>))>>)}

\* lines that parse but are no well-formed record
OddLines ==
    {LineOf(JInt(42)),                                       \* JSON, but no object
     LineOf(JObj(<<KV("metadata", JObj(<<>>))>>)),           \* no `data`
     LineOf(JObj(<<KV("data", JList(<<JInt(1)>>))>>)),       \* `data` is a list
     LineOf(JObj(<<KV("metadata", JStr("m")),                \* metadata is no object
                   KV("data", JObj(<<KV("id", JInt(7)), KV("userId", JInt(5)),
                        KV("products", JList(<<JObj(<<KV("id", JInt(1))>>)>>))>>))>>))}

ConvLines(type) ==
    {Malformed} \cup OddLines \cup {LineOf(Envelope(d)) : d \in ConvData(type)}

Times == {"T1", "T2"}

ConvInit ==
    /\ conv_pc = "loop"
    /\ conv_error = "none"
    /\ data_type \in DataTypes
    /\ raw_lines \in UNION {[1..n -> ConvLines(data_type)] : n \in 0..MaxLines}
    /\ line_no = 1
    /\ flattened_data = <<>>
    /\ df = DataFrame(<<>>)
    /\ cleanse_csv = <<>>

ConvIdle ==
    /\ conv_pc = "idle"
    /\ conv_error = "none"
    /\ data_type = "users"
    /\ raw_lines = <<>>
    /\ line_no = 1
    /\ flattened_data = <<>>
    /\ df = DataFrame(<<>>)
    /\ cleanse_csv = <<>>

ConvRaise(error) ==
    /\ conv_pc' = "raised"
    /\ conv_error' = error
    /\ UNCHANGED <<data_type, raw_lines, line_no, flattened_data, df, cleanse_csv>>

\* one pass of the for loop (lines 176-198)
ConvertLine ==
    /\ conv_pc = "loop"
    /\ line_no <= Len(raw_lines)
    /\ LET parsed == json_loads(raw_lines[line_no])
           json_data == parsed.value
       IN  IF parsed.raised
           THEN \* except json.JSONDecodeError: continue
                /\ line_no' = AfterDecodeError(line_no)
                /\ UNCHANGED <<conv_pc, conv_error, data_type, raw_lines, flattened_data,
                               df, cleanse_csv>>
           ELSE IF json_data.kind # "obj"
           THEN \* json_data.get on a value that is no dict
                ConvRaise("AttributeError")
           ELSE IF Get(json_data, "data").kind # "obj"
           THEN \* 'data' is not an object: continue
                /\ line_no' = line_no + 1
                /\ UNCHANGED <<conv_pc, conv_error, data_type, raw_lines, flattened_data,
                               df, cleanse_csv>>
           ELSE IF flattened_entries(json_data, data_type).raised
           THEN ConvRaise("AttributeError")
           ELSE /\ flattened_data' =
                        flattened_data \o flattened_entries(json_data, data_type).rows
                /\ line_no' = line_no + 1
                /\ UNCHANGED <<conv_pc, conv_error, data_type, raw_lines, df, cleanse_csv>>
    /\ UNCHANGED notConv

\* the loop is over: line 201
ConvertLoopEnds ==
    /\ conv_pc = "loop"
    /\ line_no > Len(raw_lines)
    /\ df' = DataFrame(flattened_data)
    /\ conv_pc' = "audit"
    /\ UNCHANGED <<conv_error, data_type, raw_lines, line_no, flattened_data, cleanse_csv>>
    /\ UNCHANGED notConv

\* line 204
ConvertAddsAudit ==
    /\ conv_pc = "audit"
    /\ \E current_time \in Times :
        \E r \in add_audit_columns(df, data_type, current_time) :
            IF r.raised
            THEN ConvRaise(IF data_type = "carts" /\ df.rows = <<>>
                           THEN "ValueError" ELSE "KeyError")
            ELSE /\ df' = r.df
                 /\ conv_pc' = "write"
                 /\ UNCHANGED <<conv_error, data_type, raw_lines, line_no, flattened_data,
                                cleanse_csv>>
    /\ UNCHANGED notConv

\* line 207: write_to_gcs replaces the destination blob
ConvertWritesCsv ==
    /\ conv_pc = "write"
    /\ cleanse_csv' = <<df>>
    /\ conv_pc' = "done"
    /\ UNCHANGED <<conv_error, data_type, raw_lines, line_no, flattened_data, df>>
    /\ UNCHANGED notConv

ConvNext == ConvertLine \/ ConvertLoopEnds \/ ConvertAddsAudit \/ ConvertWritesCsv

(***************************************************************************)
(* Claims about convert_json_to_csv.                                       *)
(***************************************************************************)
\* a line that fails to parse as JSON
IsUndecodable(line) == ~line.json

\* a line that is a JSON object whose `data` is absent or no object
IsDataNotObject(line) ==
    /\ line.json
    /\ line.value.kind = "obj"
    /\ Get(line.value, "data").kind # "obj"

IsBadLine(line) == IsUndecodable(line) \/ IsDataNotObject(line)

\* a line that is a record of the entity: an object with an object `data`
\* that the entity's flattener accepts
IsValidLine(line, type) ==
    /\ line.json
    /\ line.value.kind = "obj"
    /\ Get(line.value, "data").kind = "obj"
    /\ ~flattened_entries(line.value, type).raised

\* the row sets of the valid lines among the first n, in input order
RECURSIVE RowSetsOfValid(_, _, _)
RowSetsOfValid(lines, n, type) ==
    IF n = 0 THEN <<>>
    ELSE RowSetsOfValid(lines, n - 1, type)
            \o (IF IsValidLine(lines[n], type)
                THEN flattened_entries(lines[n].value, type).rows ELSE <<>>)

\* C4: an input of valid and bad lines (unparsable, or `data` not an object),
\* at least one of them bad, never makes the run raise: it goes on to the
\* enrichment and the CSV write with the rows of the valid lines, however few.
C4_NeverAbortsOnBadLine ==
    (/\ \E i \in 1..Len(raw_lines) : IsBadLine(raw_lines[i])
     /\ \A i \in 1..Len(raw_lines) :
            IsBadLine(raw_lines[i]) \/ IsValidLine(raw_lines[i], data_type))
        => conv_pc # "raised"

OneUndecodableAmongValid ==
    /\ Cardinality({i \in 1..Len(raw_lines) : IsUndecodable(raw_lines[i])}) = 1
    /\ \A i \in 1..Len(raw_lines) :
            IsUndecodable(raw_lines[i]) \/ IsValidLine(raw_lines[i], data_type)

\* C5: with one undecodable line among N valid lines the loop never raises
\* and the rows accumulated are, line after line, those of the valid lines
\* handled so far, in input order.
C5_BadLineDropsNothingElse ==
    (conv_pc # "idle" /\ OneUndecodableAmongValid) =>
        /\ conv_pc = "raised" => line_no > Len(raw_lines)
        /\ line_no <= Len(raw_lines) + 1
        /\ flattened_data = RowSetsOfValid(raw_lines, line_no - 1, data_type)

\* the loop is over an input whose undecodable line stands between two valid
\* lines that gave rows
C5_Witness ==
    /\ conv_pc = "done"
    /\ OneUndecodableAmongValid
    /\ Len(raw_lines) = 3
    /\ IsUndecodable(raw_lines[2])
    /\ flattened_entries(raw_lines[1].value, data_type).rows # <<>>
    /\ flattened_entries(raw_lines[3].value, data_type).rows # <<>>
    /\ Len(flattened_data) >= 2

(***************************************************************************)
(* add_audit_columns run after run (lines 201-204 of every conversion):    *)
(* each run builds the DataFrame of its own flattened rows and adds the    *)
(* audit columns and the surrogate key.                                    *)
(***************************************************************************)
\* the `data` objects whose rows the runs draw from: those of ConvData and one
\* more with a natural key already there and other fields that differ
AuditData(type) ==
    ConvData(type) \cup
        (CASE type = "products" ->
                {JObj(<<KV("id", JInt(7)), KV("title", JStr("Gadget"))>>)}
           [] type = "users" ->
                {JObj(<<KV("id", JInt(7)), KV("firstName", JStr("Zed"))>>)}
           [] type = "carts" ->
                {JObj(<<KV("id", JInt(12)), KV("userId", JInt(5)), KV("total", JInt(10)),
                        KV("products", JList(<<JObj(<<KV("id", JInt(1))>>)>>))>>),
                 JObj(<<KV("id", JInt(2)), KV("userId", JInt(51)), KV("total", JInt(10)),
                        KV("products", JList(<<JObj(<<KV("id", JInt(1))>>)>>))>>)})

AuditDicts(type) ==
    UNION {{flattened_entries(Envelope(d), type).rows[i] :
                i \in 1..Len(flattened_entries(Envelope(d), type).rows)} :
            d \in AuditData(type)}

AuditTables(type) == UNION {[1..n -> AuditDicts(type)] : n \in 0..MaxRows}

\* the value a flattened row has in a column, NaN when it has none
CellOf(dict, c) == IF c \in DOMAIN dict THEN dict[c] ELSE NaN

\* the natural-key field values of a flattened row
NaturalKey(dict, type) ==
    CASE type = "products" -> <<CellOf(dict, "product_id")>>
      [] type = "users" -> <<CellOf(dict, "user_id")>>
      [] type = "carts" ->
            <<CellOf(dict, "user_id"), CellOf(dict, "product_id"), CellOf(dict, "cart_id")>>

AuditInit ==
    /\ audit_type \in DataTypes
    /\ audit_calls = 0
    /\ audit_result = [raised |-> FALSE, df |-> DataFrame(<<>>)]
    /\ sgk_seen = {}

AuditIdle ==
    /\ audit_type = "users"
    /\ audit_calls = 0
    /\ audit_result = [raised |-> FALSE, df |-> DataFrame(<<>>)]
    /\ sgk_seen = {}

\* a run whose add_audit_columns returns
AuditCallReturns ==
    /\ audit_calls < MaxCalls
    /\ \E dicts \in AuditTables(audit_type), current_time \in Times :
        \E r \in add_audit_columns(DataFrame(dicts), audit_type, current_time) :
            /\ ~r.raised
            /\ audit_result' = r
            /\ sgk_seen' = sgk_seen \cup
                    {[key |-> NaturalKey(dicts[i], audit_type),
                      sgk |-> r.df.rows[i][SgkColumn(audit_type)]] : i \in 1..Len(dicts)}
    /\ audit_calls' = audit_calls + 1
    /\ UNCHANGED <<audit_type, notAudit>>

\* a run whose add_audit_columns raises
AuditCallRaises ==
    /\ audit_calls < MaxCalls
    /\ \E dicts \in AuditTables(audit_type), current_time \in Times :
        \E r \in add_audit_columns(DataFrame(dicts), audit_type, current_time) :
            /\ r.raised
            /\ audit_result' = r
    /\ audit_calls' = audit_calls + 1
    /\ UNCHANGED <<audit_type, sgk_seen, notAudit>>

AuditNext == AuditCallReturns \/ AuditCallRaises

(***************************************************************************)
(* Claims about add_audit_columns.                                         *)
(***************************************************************************)
\* C19: cart rows with different (user id, product id, cart id) get different
\* surrogate keys: the string hashed for one triple is never the string
\* hashed for another.
C19_CartKeyInjective ==
    audit_type = "carts" =>
        \A a, b \in sgk_seen : a.key # b.key => a.sgk # b.sgk

\* C6: rows with the same natural-key field values get the same surrogate
\* key, in one run or in different runs, whatever the rest of the row, the
\* other rows of the table and the timestamp; product 7 gets the hash of "7".
C6_SurrogateKeyDeterminism ==
    /\ \A p, q \in sgk_seen : p.key = q.key => p.sgk = q.sgk
    /\ \A p \in sgk_seen :
        (audit_type = "products" /\ p.key = <<JInt(7)>>) => p.sgk = md5_hexdigest("7")

(***************************************************************************)
(* The warehouse loaders.  A cell of the CSV as pd.read_csv gives it: a    *)
(* number, a text, or NaN for an empty cell.                               *)
(***************************************************************************)
Loaders == {"products", "carts", "users"}

SgkColumns(l) == <<SgkColumn(l)>>

\* business_columns
BusinessColumns(l) ==
    CASE l = "products" ->
            <<"product_id", "product_title", "product_category", "product_brand",
              "product_price">>
      [] l = "carts" ->
            <<"cart_id", "user_id", "product_id", "product_quantity", "product_price",
              "total_cart_value">>
      [] l = "users" ->
            <<"user_id", "user_firstName", "user_lastName", "user_gender", "user_age",
              "user_address_address", "user_address_city", "user_address_postalCode">>

\* audit_columns
LoaderAuditColumns ==
    <<"record_create_name", "record_create_datetime", "record_update_name",
      "record_update_datetime", "source_system_code">>

\* all_required_columns = sgk_columns + business_columns + audit_columns
all_required_columns(l) == SgkColumns(l) \o BusinessColumns(l) \o LoaderAuditColumns

\* the list assigned to <table>.columns
TargetColumns(l) ==
    CASE l = "products" ->
            <<"sgk_product_id", "product_id", "name", "category", "brand", "price">>
                \o LoaderAuditColumns
      [] l = "carts" ->
            <<"sgk_cart_id", "cart_id", "user_id", "product_id", "quantity", "price",
              "total_cart_value">> \o LoaderAuditColumns
      [] l = "users" ->
            <<"sgk_user_id", "user_id", "first_name", "last_name", "gender", "age",
              "street", "city", "postal_code">> \o LoaderAuditColumns

SeqToSet(q) == {q[i] : i \in 1..Len(q)}

\* Mutant: the projection reindexes, it gives NaN columns for the missing ones.
HasRequiredColumns_lenient(frame, l) == TRUE

\* df[all_required_columns] raises KeyError unless every column is there
HasRequiredColumns(frame, l) == SeqToSet(all_required_columns(l)) \subseteq frame.columns

\* df[all_required_columns].copy() followed by <table>.columns = [...]: the
\* i-th required column under the i-th target name
ProjectRename(frame, l) ==
    LET required == all_required_columns(l)
        target == TargetColumns(l)
    IN  [columns |-> SeqToSet(target),
         rows |-> [r \in 1..Len(frame.rows) |->
                      [c \in SeqToSet(target) |->
                          CellOf(frame.rows[r],
                                 required[CHOOSE i \in 1..Len(target) : target[i] = c])]]]

IsNumber(cell) == cell.kind \in {"int", "float"}

\* pd.to_numeric(..., errors='coerce') of one cell
to_numeric(cell) == IF IsNumber(cell) THEN cell ELSE NaN

\* <table>[col] = pd.to_numeric(<table>[col], errors='coerce')
CoerceColumn(frame, col) ==
    [columns |-> frame.columns,
     rows |-> [r \in 1..Len(frame.rows) |->
                  [frame.rows[r] EXCEPT ![col] = to_numeric(frame.rows[r][col])]]]

\* the rows of a frame selected by a boolean mask, in their order
RECURSIVE FilterRows(_, _, _)
FilterRows(rows, mask, n) ==
    IF n = 0 THEN <<>>
    ELSE FilterRows(rows, mask, n - 1) \o (IF mask[n] THEN <<rows[n]>> ELSE <<>>)

\* a number in hundredths
Hundredths(cell) == IF cell.kind = "int" THEN cell.val * 100 ELSE cell.val

PriceFloor == 50

\* Mutant: products at the floor pass.
AbovePriceFloor_inclusive(cell) == IsNumber(cell) /\ Hundredths(cell) >= PriceFloor * 100

\* products_table['price'] > 50: False for NaN
AbovePriceFloor(cell) == IsNumber(cell) /\ Hundredths(cell) > PriceFloor * 100

\* NaN or None, what dropna looks for
IsNull(cell) == cell.kind \in {"nan", "null"}

clean_products_table(frame) ==
    LET coerced == CoerceColumn(ProjectRename(frame, "products"), "price")
        keep == [r \in 1..Len(coerced.rows) |-> AbovePriceFloor(coerced.rows[r]["price"])]
    IN  [columns |-> coerced.columns,
         rows |-> FilterRows(coerced.rows, keep, Len(coerced.rows))]

clean_carts_table(frame) ==
    LET coerced == CoerceColumn(CoerceColumn(ProjectRename(frame, "carts"), "quantity"),
                                "price")
        keep == [r \in 1..Len(coerced.rows) |->
                    \A c \in {"cart_id", "user_id", "product_id"} : ~IsNull(coerced.rows[r][c])]
    IN  [columns |-> coerced.columns,
         rows |-> FilterRows(coerced.rows, keep, Len(coerced.rows))]

clean_users_table(frame) ==
    LET coerced == CoerceColumn(ProjectRename(frame, "users"), "age")
        keep == [r \in 1..Len(coerced.rows) |->
                    \A c \in {"user_id", "first_name", "last_name"} : ~IsNull(coerced.rows[r][c])]
    IN  [columns |-> coerced.columns,
         rows |-> FilterRows(coerced.rows, keep, Len(coerced.rows))]

clean_table(frame, l) ==
    CASE l = "products" -> clean_products_table(frame)
      [] l = "carts" -> clean_carts_table(frame)
      [] l = "users" -> clean_users_table(frame)

(***************************************************************************)
(* The cleansed CSVs the loaders are run on.                               *)
(***************************************************************************)
\* the columns of a CSV that has all the required ones and one more
FullColumns(l) == SeqToSet(all_required_columns(l)) \cup {"metadata_extraction_timestamp"}

\* a row whose every cell is well formed; a text cell holds its column's name
BaseRow(l) ==
    [c \in FullColumns(l) |->
        CASE c \in {"product_id", "user_id", "cart_id"} -> JInt(7)
          [] c = "product_price" -> JInt(60)
          [] c = "product_quantity" -> JInt(2)
          [] c = "user_age" -> JInt(30)
          [] c = "total_cart_value" -> JFloat(10050)
          [] OTHER -> JStr(c)]

\* the base row and its variants in the columns the cleaning looks at
CsvRows(l) ==
    CASE l = "products" ->
            {[BaseRow(l) EXCEPT !["product_price"] = v] :
                v \in {JFloat(4999), JInt(50), JFloat(5001), JInt(60), JStr("n/a"), NaN}}
      [] l = "carts" ->
            {BaseRow(l)}
            \cup {[BaseRow(l) EXCEPT ![c] = NaN] : c \in {"cart_id", "user_id", "product_id"}}
            \cup {[BaseRow(l) EXCEPT ![c] = JStr("n/a")] :
                    c \in {"product_quantity", "product_price"}}
      [] l = "users" ->
            {BaseRow(l)}
            \cup {[BaseRow(l) EXCEPT ![c] = NaN] :
                    c \in {"user_id", "user_firstName", "user_lastName"}}
            \cup {[BaseRow(l) EXCEPT !["user_age"] = JStr("old")]}

Restrict(row, columns) == [c \in columns |-> row[c]]

\* CSVs with every required column and up to MaxCsvRows rows, and CSVs of one
\* row that lack one required column
CsvInputs(l) ==
    {[columns |-> FullColumns(l), rows |-> rs] :
        rs \in UNION {[1..n -> CsvRows(l)] : n \in 0..MaxCsvRows}}
    \cup {[columns |-> FullColumns(l) \ {c},
           rows |-> <<Restrict(BaseRow(l), FullColumns(l) \ {c})>>] :
            c \in SeqToSet(all_required_columns(l))}

\* what an earlier run left in the destination table
OldTable(l) ==
    clean_table([columns |-> FullColumns(l),
                 rows |-> <<[BaseRow(l) EXCEPT !["source_system_code"] = JStr("OLD")]>>],
                l).rows

EmptyFrame == [columns |-> {}, rows |-> <<>>]

\* Mutant: the job appends to the table.
WRITE_APPEND(table, rows) == table \o rows

\* the table after a load job with write_disposition WRITE_TRUNCATE
WRITE_TRUNCATE(table, rows) == rows

(***************************************************************************)
(* main of a loader: clean_<x>_table (which reads the CSV), then           *)
(* load_to_bigquery; both log and re-raise, and so does main.              *)
(***************************************************************************)
LoadInit ==
    /\ loader \in Loaders
    /\ load_pc = "start"
    /\ load_error = "none"
    /\ cleanse_input \in CsvInputs(loader)
    /\ cleaned = EmptyFrame
    /\ bq_table \in {<<>>, OldTable(loader)}
    /\ table_before = bq_table
    /\ load_calls = 0
    /\ load_runs = 1
    /\ last_success = [n |-> 0, csv |-> EmptyFrame]

LoadIdle ==
    /\ loader = "users"
    /\ load_pc = "idle"
    /\ load_error = "none"
    /\ cleanse_input = EmptyFrame
    /\ cleaned = EmptyFrame
    /\ bq_table = <<>>
    /\ table_before = <<>>
    /\ load_calls = 0
    /\ load_runs = 0
    /\ last_success = [n |-> 0, csv |-> EmptyFrame]

LoaderRaises(error) ==
    /\ load_pc' = "raised"
    /\ load_error' = error
    /\ UNCHANGED <<loader, cleanse_input, cleaned, bq_table, table_before,
                   load_calls, load_runs, last_success>>

\* read_gcs_csv raises (the blob is missing, the download fails)
LoaderReadFails ==
    /\ load_pc = "start"
    /\ LoaderRaises("read")
    /\ UNCHANGED notLoad

\* clean_<x>_table raises KeyError at df[all_required_columns]
LoaderCleanRaises ==
    /\ load_pc = "start"
    /\ ~HasRequiredColumns(cleanse_input, loader)
    /\ LoaderRaises("KeyError")
    /\ UNCHANGED notLoad

\* clean_<x>_table returns
LoaderCleans ==
    /\ load_pc = "start"
    /\ HasRequiredColumns(cleanse_input, loader)
    /\ cleaned' = clean_table(cleanse_input, loader)
    /\ load_pc' = "cleaned"
    /\ UNCHANGED <<loader, load_error, cleanse_input, bq_table, table_before,
                   load_calls, load_runs, last_success>>
    /\ UNCHANGED notLoad

\* load_to_bigquery with WRITE_TRUNCATE: the job replaces the table's rows
LoaderLoads ==
    /\ load_pc = "cleaned"
    /\ bq_table' = WRITE_TRUNCATE(bq_table, cleaned.rows)
    /\ load_calls' = load_calls + 1
    /\ load_pc' = "done"
    /\ last_success' = [n |-> last_success.n + 1, csv |-> cleanse_input]
    /\ UNCHANGED <<loader, load_error, cleanse_input, cleaned, table_before, load_runs>>
    /\ UNCHANGED notLoad

\* load_to_bigquery raises: the job failed and wrote nothing
LoaderLoadFails ==
    /\ load_pc = "cleaned"
    /\ load_calls' = load_calls + 1
    /\ load_pc' = "raised"
    /\ load_error' = "load"
    /\ UNCHANGED <<loader, cleanse_input, cleaned, bq_table, table_before, load_runs,
                   last_success>>
    /\ UNCHANGED notLoad

LoadNext ==
    \/ LoaderReadFails
    \/ LoaderCleanRaises
    \/ LoaderCleans
    \/ LoaderLoads
    \/ LoaderLoadFails

(***************************************************************************)
(* The loader run again and again (the DAG runs it daily) on the CSV of    *)
(* the day: CSVs of at most one row, and CSVs that lack a required column. *)
(***************************************************************************)
ReloadInputs(l) ==
    {c \in CsvInputs(l) : Len(c.rows) <= 1}

ReloadInit ==
    /\ loader \in Loaders
    /\ load_pc = "start"
    /\ load_error = "none"
    /\ cleanse_input \in ReloadInputs(loader)
    /\ cleaned = EmptyFrame
    /\ bq_table = <<>>
    /\ table_before = bq_table
    /\ load_calls = 0
    /\ load_runs = 1
    /\ last_success = [n |-> 0, csv |-> EmptyFrame]

\* the next run of the script begins: a new process, the same table
LoaderRunsAgain ==
    /\ load_pc \in {"done", "raised"}
    /\ load_runs < MaxRuns
    /\ load_runs' = load_runs + 1
    /\ cleanse_input' \in ReloadInputs(loader)
    /\ load_pc' = "start"
    /\ load_error' = "none"
    /\ cleaned' = EmptyFrame
    /\ table_before' = bq_table
    /\ load_calls' = 0
    /\ UNCHANGED <<loader, bq_table, last_success>>
    /\ UNCHANGED notLoad

ReloadNext ==
    \/ LoaderReadFails
    \/ LoaderCleanRaises
    \/ LoaderCleans
    \/ LoaderLoads
    \/ LoaderLoadFails
    \/ LoaderRunsAgain

(***************************************************************************)
(* Claims about the loaders.                                               *)
(***************************************************************************)
\* the rows of the CSV whose price is a number above 50, by position
KeptByPrice(frame) ==
    {i \in 1..Len(frame.rows) :
        LET price == frame.rows[i]["product_price"]
        IN  \/ price.kind = "int" /\ price.val > 50
            \/ price.kind = "float" /\ price.val > 5000}

\* the k-th smallest element of a set of positions
Nth(S, k) == CHOOSE i \in S : Cardinality({j \in S : j <= i}) = k

\* C9: clean_products_table keeps exactly the rows whose price is a number
\* strictly above 50 (49.99, 50, a text and an empty cell are dropped, 50.01
\* is kept), in their order and with their other values.
C9_PriceFilter ==
    (loader = "products" /\ load_pc = "cleaned") =>
        LET kept == KeptByPrice(cleanse_input)
        IN  /\ Len(cleaned.rows) = Cardinality(kept)
            /\ \A k \in 1..Len(cleaned.rows) :
                LET src == cleanse_input.rows[Nth(kept, k)]
                    row == cleaned.rows[k]
                IN  /\ row["price"] = src["product_price"]
                    /\ row["sgk_product_id"] = src["sgk_product_id"]
                    /\ row["product_id"] = src["product_id"]
                    /\ row["name"] = src["product_title"]
                    /\ row["category"] = src["product_category"]
                    /\ row["brand"] = src["product_brand"]
                    /\ \A c \in SeqToSet(LoaderAuditColumns) : row[c] = src[c]

\* a CSV with a row at 50.01 and a row at exactly 50 has been cleaned: one row
\* is left
C9_Witness ==
    /\ loader = "products" /\ load_pc = "cleaned"
    /\ Len(cleanse_input.rows) = 2
    /\ cleanse_input.rows[1]["product_price"] = JFloat(5001)
    /\ cleanse_input.rows[2]["product_price"] = JInt(50)
    /\ Len(cleaned.rows) = 1

\* two rows above 50 have been kept in their order
C9_WitnessOrder ==
    /\ loader = "products" /\ load_pc = "cleaned"
    /\ Len(cleaned.rows) = 2
    /\ cleaned.rows[1]["price"] = JInt(60)
    /\ cleaned.rows[2]["price"] = JFloat(5001)

\* the rows of the CSV whose natural key has no null, by position
KeptByKey(frame, l) ==
    {i \in 1..Len(frame.rows) :
        \A c \in (IF l = "carts" THEN {"cart_id", "user_id", "product_id"} ELSE {"user_id"}) :
            frame.rows[i][c].kind \notin {"nan", "null"}}

\* C16: clean_carts_table keeps exactly the rows whose cart_id, user_id and
\* product_id are all non-null, clean_users_table exactly the rows whose
\* user_id is non-null; a quantity, price or age that is no number becomes
\* null and the row stays.
C16_NullKeyFilter ==
    (loader \in {"carts", "users"} /\ load_pc = "cleaned") =>
        LET kept == KeptByKey(cleanse_input, loader)
        IN  /\ Len(cleaned.rows) = Cardinality(kept)
            /\ \A k \in 1..Len(cleaned.rows) :
                LET src == cleanse_input.rows[Nth(kept, k)]
                    row == cleaned.rows[k]
                    numeric(cell) == IF cell.kind \in {"int", "float"} THEN cell ELSE NaN
                IN  /\ row["user_id"] = src["user_id"]
                    /\ loader = "carts" =>
                            /\ row["cart_id"] = src["cart_id"]
                            /\ row["product_id"] = src["product_id"]
                            /\ row["quantity"] = numeric(src["product_quantity"])
                            /\ row["price"] = numeric(src["product_price"])
                    /\ loader = "users" => row["age"] = numeric(src["user_age"])

LacksRequiredColumn ==
    \E c \in SeqToSet(all_required_columns(loader)) : c \notin cleanse_input.columns

\* C10: in a run on a CSV that lacks a required column nothing happens but
\* main raising: the clean step does not return, load_to_bigquery is not
\* called and the table holds what it held when the run began.
C10_MissingColumnAborts ==
    (load_pc # "idle" /\ LacksRequiredColumn) =>
        /\ load_pc \in {"start", "raised"}
        /\ load_pc = "raised" => load_error \in {"KeyError", "read"}
        /\ load_calls = 0
        /\ bq_table = table_before

\* the run on a CSV that lacks a column has raised KeyError and the table
\* still holds the earlier run's row
C10_Witness ==
    /\ LacksRequiredColumn
    /\ load_pc = "raised" /\ load_error = "KeyError"
    /\ bq_table # <<>>
    /\ bq_table = table_before


(***************************************************************************)
(* api-data-extraction.py, main: fetch_paginated_data, then save_to_gcs,   *)
(* whose result main does not look at.                                     *)
(***************************************************************************)
\* {"metadata": {"extraction_timestamp": extraction_timestamp}, "data": item}
Wrapped(extraction_timestamp, item) ==
    JObj(<<KV("metadata",
              JObj(<<KV("extraction_timestamp", JStr(extraction_timestamp))>>)),
           KV("data", item)>>)

\* json.dumps of a value: one line of text that json.loads reads back
json_dumps(value) == LineOf(value)

\* Mutant: the clock is read for every item.
ndjson_content_clock_per_item(data, extraction_timestamp) ==
    [i \in 1..Len(data) |->
        json_dumps(Wrapped(IF i = 1 THEN extraction_timestamp ELSE "T9", JInt(data[i])))]

\* the list comprehension of lines 60-63; the items of the fetch are numbers
ndjson_content(data, extraction_timestamp) ==
    [i \in 1..Len(data) |-> json_dumps(Wrapped(extraction_timestamp, JInt(data[i])))]

\* Mutant: the handler lets the exception go.
OnUploadError_raise == "raised"

\* except Exception as e: ...; return False
OnUploadError == "returned"

\* what an earlier run left in the blob
OldBlobs == {<<>>, <<json_dumps(Wrapped("T0", JInt(99)))>>}

SaveInit ==
    /\ save_pc = "pending"
    /\ save_result = "none"
    /\ raw_blob \in OldBlobs
    /\ blob_before = raw_blob
    /\ exit_status = -1

SaveIdle ==
    /\ save_pc = "idle"
    /\ save_result = "none"
    /\ raw_blob = <<>>
    /\ blob_before = <<>>
    /\ exit_status = -1

\* save_to_gcs: upload_from_string replaces the blob; return True
SaveUploads ==
    /\ fetch_pc = "done"
    /\ save_pc = "pending"
    /\ \E extraction_timestamp \in Times :
            raw_blob' = ndjson_content(all_items, extraction_timestamp)
    /\ save_result' = "True"
    /\ save_pc' = "returned"
    /\ UNCHANGED <<blob_before, exit_status>>
    /\ UNCHANGED notSave

\* save_to_gcs: something in the try block raises; the blob is as it was
SaveUploadFails ==
    /\ fetch_pc = "done"
    /\ save_pc = "pending"
    /\ save_pc' = OnUploadError
    /\ save_result' = "False"
    /\ UNCHANGED <<raw_blob, blob_before, exit_status>>
    /\ UNCHANGED notSave

\* main returns after save_to_gcs returned: the script exits with status 0
MainExits ==
    /\ save_pc = "returned"
    /\ save_pc' = "exit"
    /\ exit_status' = 0
    /\ UNCHANGED <<save_result, raw_blob, blob_before>>
    /\ UNCHANGED notSave

ExtractNext ==
    \/ \E data \in Responses(skip, limit) : FetchPage(data)
    \/ FetchRequestFails
    \/ SaveUploads
    \/ SaveUploadFails
    \/ MainExits

(***************************************************************************)
(* Claims about the extraction script.                                     *)
(***************************************************************************)
\* C14: after save_to_gcs returned True the blob has one line per fetched
\* item, in fetch order, each {metadata: {extraction_timestamp: T}, data: item}
\* with one T for all lines, and nothing else; also when the fetch stopped on
\* a request failure and when it fetched nothing.
C14_BlobIsTheFetch ==
    save_result = "True" =>
        /\ Len(raw_blob) = Len(all_items)
        /\ \E T \in Times :
            \A i \in 1..Len(raw_blob) :
                /\ raw_blob[i].json
                /\ raw_blob[i].value =
                      JObj(<<KV("metadata", JObj(<<KV("extraction_timestamp", JStr(T))>>)),
                             KV("data", JInt(all_items[i]))>>)

\* a fetch that a request failure ended after two items, over an old blob
C14_Witness ==
    /\ save_result = "True"
    /\ failed
    /\ Len(all_items) >= 2
    /\ blob_before # <<>>

\* a fetch that got nothing empties the blob
C14_WitnessEmpty ==
    /\ save_result = "True"
    /\ all_items = <<>>
    /\ blob_before # <<>>
    /\ raw_blob = <<>>

\* C15: a failed upload makes save_to_gcs return False, never raise, and
\* leaves the blob as it was; main then ends with exit status 0, so the task
\* is not reported as failed.  A loader whose read or load fails ends with the
\* exception leaving main.
C15_UploadFailureIsSilent ==
    /\ save_pc # "raised"
    /\ exit_status \in {-1, 0}
    /\ save_result = "False" =>
            /\ raw_blob = blob_before
            /\ save_pc \in {"returned", "exit"}
            /\ save_pc = "exit" => exit_status = 0
    /\ load_error \in {"read", "load"} => load_pc = "raised"

\* the upload failed after a fetch that got items, and the script is over
C15_Witness ==
    /\ save_result = "False"
    /\ save_pc = "exit"
    /\ exit_status = 0
    /\ all_items # <<>>
    /\ ~failed

\* a loader whose load job failed
C15_WitnessLoader ==
    /\ load_error = "load"
    /\ load_pc = "raised"
    /\ load_calls = 1

(***************************************************************************)
(* savannah-dag.py: one run of ecommerce_dag.  The scheduler starts a task *)
(* when its trigger rule is met, retries a failed attempt `retries` times, *)
(* and marks a task upstream_failed or skipped when its rule cannot be met.*)
(* The contents of a blob or table are a term that names what it was made  *)
(* from.                                                                   *)
(***************************************************************************)
Entities == {"users", "carts", "products"}

extract(e) == "extract_" \o e
convert(e) == "convert_" \o e \o "_to_csv"
load(e) == "load_" \o e \o "_to_bq"

extraction_group == {extract(e) : e \in Entities}
transformation_group == {convert(e) : e \in Entities}
loading_group == {load(e) : e \in Entities}

Tasks ==
    {"start", "end", "failure_notification"}
    \cup extraction_group \cup transformation_group \cup loading_group

\* default_args['retries']
retries == 1

\* Mutant: each task waits for the task of its own entity only.
upstream_per_track(t) ==
    CASE t \in extraction_group -> {"start"}
      [] t \in transformation_group -> {extract(e) : e \in {x \in Entities : convert(x) = t}}
      [] t \in loading_group -> {convert(e) : e \in {x \in Entities : load(x) = t}}
      [] t \in {"end", "failure_notification"} -> loading_group
      [] OTHER -> {}

\* start >> extraction_group >> transformation_group >> loading_group
\*       >> [end, failure_email]
upstream_task_ids(t) ==
    CASE t \in extraction_group -> {"start"}
      [] t \in transformation_group -> extraction_group
      [] t \in loading_group -> transformation_group
      [] t \in {"end", "failure_notification"} -> loading_group
      [] OTHER -> {}

\* Mutant: failure_notification keeps the default trigger rule.
trigger_rule_default(t) == "all_success"

trigger_rule(t) == IF t = "failure_notification" THEN "one_failed" ELSE "all_success"

UpstreamIn(t, states) == {u \in upstream_task_ids(t) : task_state[u] \in states}

\* the trigger rule of t lets it run
TriggerRuleMet(t) ==
    IF trigger_rule(t) = "one_failed"
    THEN UpstreamIn(t, {"failed", "upstream_failed"}) # {}
    ELSE UpstreamIn(t, {"success"}) = upstream_task_ids(t)

\* the names in the bash_command of each task
filename(name) == "raw/" \o name \o ".json"
source_blob_name(e) == "raw/" \o e \o ".json"
destination_blob_name(e) == "cleanse/" \o e \o ".csv"
input_file(e) == "cleanse/" \o e \o ".csv"
\* Mutant: the three loaders write one table.
table_name_shared(e) == "users_table"

table_name(e) == e \o "_table"

Names ==
    UNION {{filename(e), source_blob_name(e), destination_blob_name(e), input_file(e),
            table_name(e)} : e \in Entities}

\* contents
Old(name) == "old(" \o name \o ")"
Api(e) == "api(" \o e \o ")"
Ndjson(items) == "ndjson(" \o items \o ")"
Csv(blob) == "csv(" \o blob \o ")"
Table(csv) == "rows(" \o csv \o ")"

DagInit ==
    /\ task_state = [t \in Tasks |-> "none"]
    /\ try_number = [t \in Tasks |-> 0]
    /\ store = [n \in Names |-> Old(n)]
    /\ ran = {}
    /\ reads = {}
    /\ writes = {}

DagIdle ==
    /\ task_state = [t \in Tasks |-> "idle"]
    /\ try_number = [t \in Tasks |-> 0]
    /\ store = [n \in Names |-> Old(n)]
    /\ ran = {}
    /\ reads = {}
    /\ writes = {}

\* the scheduler starts an attempt of t
TaskStarts(t) ==
    /\ \/ task_state[t] = "none" /\ TriggerRuleMet(t)
       \/ task_state[t] = "up_for_retry"
    /\ task_state' = [task_state EXCEPT ![t] = "running"]
    /\ try_number' = [try_number EXCEPT ![t] = @ + 1]
    /\ ran' = ran \cup {t}
    /\ UNCHANGED <<store, reads, writes>>
    /\ UNCHANGED notDag

\* the bash_command of t exits with a status other than 0
TaskFails(t) ==
    /\ task_state[t] = "running"
    /\ task_state' = [task_state EXCEPT
                        ![t] = IF try_number[t] <= retries THEN "up_for_retry"
                               ELSE "failed"]
    /\ try_number' = [try_number EXCEPT ![t] = IF @ <= retries THEN @ ELSE 0]
    /\ UNCHANGED <<store, ran, reads, writes>>
    /\ UNCHANGED notDag

\* the echo of start, end or failure_notification exits with status 0
EchoSucceeds(t) ==
    /\ t \in {"start", "end", "failure_notification"}
    /\ task_state[t] = "running"
    /\ task_state' = [task_state EXCEPT ![t] = "success"]
    /\ try_number' = [try_number EXCEPT ![t] = 0]
    /\ UNCHANGED <<store, ran, reads, writes>>
    /\ UNCHANGED notDag

\* api-data-extraction.py exits with status 0: main ignores what save_to_gcs
\* returned, so the blob was replaced (uploaded) or not
ExtractSucceeds(e) ==
    /\ task_state[extract(e)] = "running"
    /\ task_state' = [task_state EXCEPT ![extract(e)] = "success"]
    /\ \E uploaded \in BOOLEAN :
        IF uploaded
        THEN /\ store' = [store EXCEPT ![filename(e)] = Ndjson(Api(e))]
             /\ writes' = writes \cup {<<extract(e), filename(e)>>}
        ELSE UNCHANGED <<store, writes>>
    /\ try_number' = [try_number EXCEPT ![extract(e)] = 0]
    /\ UNCHANGED <<ran, reads>>
    /\ UNCHANGED notDag

\* json-tocsv-conversion.py exits with status 0
ConvertSucceeds(e) ==
    /\ task_state[convert(e)] = "running"
    /\ task_state' = [task_state EXCEPT ![convert(e)] = "success"]
    /\ store' = [store EXCEPT ![destination_blob_name(e)] = Csv(store[source_blob_name(e)])]
    /\ reads' = reads \cup {<<convert(e), source_blob_name(e)>>}
    /\ writes' = writes \cup {<<convert(e), destination_blob_name(e)>>}
    /\ try_number' = [try_number EXCEPT ![convert(e)] = 0]
    /\ UNCHANGED ran
    /\ UNCHANGED notDag

\* <entity>-bq-loader.py exits with status 0
LoadSucceeds(e) ==
    /\ task_state[load(e)] = "running"
    /\ task_state' = [task_state EXCEPT ![load(e)] = "success"]
    /\ store' = [store EXCEPT ![table_name(e)] = Table(store[input_file(e)])]
    /\ reads' = reads \cup {<<load(e), input_file(e)>>}
    /\ writes' = writes \cup {<<load(e), table_name(e)>>}
    /\ try_number' = [try_number EXCEPT ![load(e)] = 0]
    /\ UNCHANGED ran
    /\ UNCHANGED notDag

\* the tasks the scheduler can no longer run: the rule is all_success and an
\* upstream task failed
Blocked ==
    {t \in Tasks : /\ task_state[t] = "none"
                   /\ trigger_rule(t) = "all_success"
                   /\ UpstreamIn(t, {"failed", "upstream_failed"}) # {}}

\* the tasks the scheduler skips: the rule is one_failed and every upstream
\* task succeeded
Skippable ==
    {t \in Tasks : /\ task_state[t] = "none"
                   /\ trigger_rule(t) = "one_failed"
                   /\ UpstreamIn(t, {"success", "skipped"}) = upstream_task_ids(t)}

\* one pass of the scheduler over the tasks that have no state yet
SchedulerMarks ==
    /\ Blocked \cup Skippable # {}
    /\ task_state' = [t \in Tasks |->
                        IF t \in Blocked THEN "upstream_failed"
                        ELSE IF t \in Skippable THEN "skipped"
                        ELSE task_state[t]]
    /\ UNCHANGED <<try_number, store, ran, reads, writes>>
    /\ UNCHANGED notDag

Starts == \E t \in Tasks : TaskStarts(t)
Fails == \E t \in Tasks : TaskFails(t)
Echoes == \E t \in Tasks : EchoSucceeds(t)
Extracts == \E e \in Entities : ExtractSucceeds(e)
Converts == \E e \in Entities : ConvertSucceeds(e)
Loads == \E e \in Entities : LoadSucceeds(e)

DagNext ==
    \/ Starts
    \/ Fails
    \/ Echoes
    \/ Extracts
    \/ Converts
    \/ Loads
    \/ SchedulerMarks

(***************************************************************************)
(* Claims about the DAG run.                                               *)
(***************************************************************************)
\* C12: a transformation task starts an attempt only when all three
\* extraction tasks have succeeded, and a loading task only when all three
\* transformation tasks have succeeded, however the parallel tasks interleave.
C12_StageBarriers ==
    /\ \A t \in ran \cap {"convert_users_to_csv", "convert_carts_to_csv",
                          "convert_products_to_csv"} :
            \A u \in {"extract_users", "extract_carts", "extract_products"} :
                task_state[u] = "success"
    /\ \A t \in ran \cap {"load_users_to_bq", "load_carts_to_bq", "load_products_to_bq"} :
            \A u \in {"convert_users_to_csv", "convert_carts_to_csv",
                      "convert_products_to_csv"} :
                task_state[u] = "success"

\* tasks of one stage at different points: one loading task has finished,
\* one is running its second attempt, one has not started
C12_Witness ==
    /\ task_state["load_users_to_bq"] = "success"
    /\ task_state["load_carts_to_bq"] = "running"
    /\ try_number["load_carts_to_bq"] = 2
    /\ task_state["load_products_to_bq"] = "none"

StageTasks == {"start"} \cup extraction_group \cup transformation_group \cup loading_group

SomeTaskFailed == \E t \in StageTasks : task_state[t] = "failed"

AllTasksSucceeded == \A t \in StageTasks : task_state[t] = "success"

\* C13: once a task of a stage has failed (its retry included),
\* failure_notification eventually runs and end never does; once every task
\* of the stages has succeeded, end eventually runs and failure_notification
\* never does; the two never both run.
C13_FailureRouting ==
    /\ [](~({"end", "failure_notification"} \subseteq ran))
    /\ [](SomeTaskFailed => "end" \notin ran)
    /\ [](AllTasksSucceeded => "failure_notification" \notin ran)
    /\ SomeTaskFailed ~> ("failure_notification" \in ran)
    /\ AllTasksSucceeded ~> ("end" \in ran)

\* an extraction task failed, its retry too, and the notification has run
C13_Witness ==
    /\ task_state["extract_carts"] = "failed"
    /\ task_state["failure_notification"] = "success"
    /\ task_state["end"] = "upstream_failed"

\* every task succeeded and end has run
C13_WitnessSuccess ==
    /\ AllTasksSucceeded
    /\ task_state["end"] = "success"
    /\ task_state["failure_notification"] = "skipped"

TrackTasks(e) == {extract(e), convert(e), load(e)}

TrackNames(e) == {"raw/" \o e \o ".json", "cleanse/" \o e \o ".csv", e \o "_table"}

Wrote(t) == \E n \in DOMAIN store : <<t, n>> \in writes

\* C17: a task reads and writes only the blobs and the table of its own
\* entity, and the contents of every blob and table are fixed by which tasks
\* of its own track have written: the order in which the parallel tasks of a
\* stage run does not show in them.
C17_TracksIndependent ==
    \A e \in Entities :
        /\ \A a \in reads \cup writes : a[1] \in TrackTasks(e) => a[2] \in TrackNames(e)
        /\ LET raw == "raw/" \o e \o ".json"
               csv == "cleanse/" \o e \o ".csv"
               tbl == e \o "_table"
           IN  /\ {raw, csv, tbl} \subseteq DOMAIN store
               /\ store[raw] = IF Wrote(extract(e)) THEN Ndjson(Api(e)) ELSE Old(raw)
               /\ store[csv] = IF Wrote(convert(e)) THEN Csv(store[raw]) ELSE Old(csv)
               /\ store[tbl] = IF Wrote(load(e)) THEN Table(store[csv]) ELSE Old(tbl)

\* the run is over and every task of every track has written
C17_Witness ==
    /\ task_state["end"] = "success"
    /\ \A e \in Entities : \A t \in TrackTasks(e) : Wrote(t)

\* two tracks are writing in the other order than their tasks were defined
C17_WitnessOverlap ==
    /\ Wrote("load_products_to_bq")
    /\ task_state["load_carts_to_bq"] = "running"
    /\ task_state["load_users_to_bq"] = "none"

\* C11: the destination table holds exactly the cleaned rows of the CSV of
\* the latest run that loaded, whatever earlier runs loaded and whatever
\* runs failed since; a run that loads the CSV the latest load had leaves
\* the table as it was.
C11_FullReplace ==
    /\ last_success.n > 0 => bq_table = clean_table(last_success.csv, loader).rows
    /\ (load_pc = "done" /\ table_before = clean_table(cleanse_input, loader).rows) =>
            bq_table = table_before

\* a second load has replaced the rows of an earlier load by other rows
C11_Witness ==
    /\ load_pc = "done"
    /\ last_success.n >= 2
    /\ table_before # <<>>
    /\ bq_table # <<>>
    /\ bq_table # table_before

\* a run failed after a run that loaded: the table still has that load
C11_WitnessFailedRun ==
    /\ load_pc = "raised"
    /\ last_success.n >= 1
    /\ bq_table # <<>>
    /\ cleanse_input # last_success.csv

\* the same CSV loaded twice
C11_WitnessTwice ==
    /\ load_pc = "done"
    /\ last_success.n >= 2
    /\ bq_table # <<>>
    /\ bq_table = table_before

(***************************************************************************)
(* Specifications: one per component.                                      *)
(***************************************************************************)
FlatIdle ==
    /\ flat_pc = "idle"
    /\ flat_type = "users"
    /\ nested_json = JNull
    /\ flat_rows = <<>>

FlattenInit == FlatInit /\ FetchIdle /\ ConvIdle /\ AuditIdle /\ LoadIdle /\ SaveIdle /\ DagIdle

SpecFlatten == FlattenInit /\ [][FlatNext]_vars

FetchingInit == FetchInit /\ FlatIdle /\ ConvIdle /\ AuditIdle /\ LoadIdle /\ SaveIdle /\ DagIdle

SpecFetch == FetchingInit /\ [][FetchNext]_vars

\* every request returns or raises, and the loop goes on
SpecFetchFair == SpecFetch /\ WF_vars(FetchNext)

ConvertInit == ConvInit /\ FlatIdle /\ FetchIdle /\ AuditIdle /\ LoadIdle /\ SaveIdle /\ DagIdle

SpecConvert == ConvertInit /\ [][ConvNext]_vars

AuditingInit == AuditInit /\ FlatIdle /\ FetchIdle /\ ConvIdle /\ LoadIdle /\ SaveIdle /\ DagIdle

SpecAudit == AuditingInit /\ [][AuditNext]_vars

LoadingInit == LoadInit /\ FlatIdle /\ FetchIdle /\ ConvIdle /\ AuditIdle /\ SaveIdle /\ DagIdle

SpecLoad == LoadingInit /\ [][LoadNext]_vars

ReloadingInit == ReloadInit /\ FlatIdle /\ FetchIdle /\ ConvIdle /\ AuditIdle /\ SaveIdle /\ DagIdle

SpecReload == ReloadingInit /\ [][ReloadNext]_vars

ExtractInit ==
    FetchInit /\ SaveInit /\ FlatIdle /\ ConvIdle /\ AuditIdle /\ LoadIdle /\ DagIdle

SpecExtract == ExtractInit /\ [][ExtractNext]_vars

\* one script runs: the extraction or a loader
ScriptsInit ==
    \/ FetchInit /\ SaveInit /\ FlatIdle /\ ConvIdle /\ AuditIdle /\ LoadIdle /\ DagIdle
    \/ LoadInit /\ FetchIdle /\ SaveIdle /\ FlatIdle /\ ConvIdle /\ AuditIdle /\ DagIdle

ScriptsNext ==
    \/ \E data \in Responses(skip, limit) : FetchPage(data)
    \/ FetchRequestFails
    \/ SaveUploads
    \/ SaveUploadFails
    \/ MainExits
    \/ LoaderReadFails
    \/ LoaderCleanRaises
    \/ LoaderCleans
    \/ LoaderLoads
    \/ LoaderLoadFails

SpecScripts == ScriptsInit /\ [][ScriptsNext]_vars

DagRunInit == DagInit /\ FlatIdle /\ FetchIdle /\ ConvIdle /\ AuditIdle /\ LoadIdle /\ SaveIdle

SpecDag == DagRunInit /\ [][DagNext]_vars

\* the scheduler goes on as long as a task can be started, finished or marked
SpecDagFair == SpecDag /\ WF_vars(DagNext)

====
